---- MODULE Spec2Model ----
(***************************************************************************)
(* Model of cloudfunction/core/executor.py: class FunctionExecutor.        *)
(*                                                                         *)
(* The executor lives on one asyncio event loop.  A coroutine runs without *)
(* interruption from one await to the next, so every action below is one   *)
(* such run: from the call (or the resumption) to the next suspension or   *)
(* to the return.                                                          *)
(***************************************************************************)
EXTENDS Integers, Sequences, FiniteSets, TLC

\* ------------------------------------------------------------------ bounds
MaxCalls == 11          \* execute() calls submitted in one behaviour
MaxTicks == 2           \* clock readings are 0, Tick, .. , MaxTicks * Tick
Tick     == 3600        \* seconds between two distinct clock readings
MaxDeploys == 2         \* deploy_function calls made in one behaviour
MaxDeletes == 1         \* delete_function calls made in one behaviour
MaxInvokes == 4         \* invoke_function calls made in one behaviour
MaxGcCalls == 3         \* execute() calls made while the sweeps are watched

\* ------------------------------------------------------- program constants
SemaphoreCapacity == 10         \* asyncio.Semaphore(10)
Retention         == 3600       \* current_time - start_time > 3600
SleepNormal       == 300        \* asyncio.sleep(300)
SleepBackoff      == 60         \* asyncio.sleep(60)

project_name == "p"
FunctionNames == {"f"}

Times   == {i * Tick : i \in 0..MaxTicks}
FuncIds == {<<project_name, fn, t>> : fn \in FunctionNames, t \in Times}

\* messages of the exceptions raised in execute()
ErrNoState  == "state manager not initialised"
ErrNoMaster == "cannot get master instance"
ErrBackend  == "backend error"
ErrKey      == "KeyError"

VARIABLES
    clock,              \* value returned by time.time()
    state,              \* self.state: "present" or "None"
    running_functions,  \* self.running_functions: func_id -> dict
    sem_value,          \* self.semaphore._value
    waiters,            \* self.semaphore._waiters: <<[id, done]>>, FIFO
    awaiting,           \* func_id -> number of calls suspended at line 124
    queued,             \* func_id -> how many of those had been parked
    submitted,          \* execute() calls made so far
    acquired,           \* completed semaphore acquisitions
    released,           \* semaphore releases
    gc_pc,              \* position of _cleanup_task
    event,              \* what the step just taken delivered
    code_file,          \* content of projects/<project>/<function>.py
    backup_file,        \* content of <function>.py.bak
    req_file,           \* content of projects/<project>/requirements.txt
    fn_req_file,        \* content of <function>_requirements.txt
    env_store,          \* project environment kept by EnvManager
    dpc,                \* caller -> position of its deploy_function call
    dlocal,             \* caller -> arguments and locals of that call
    loop_owner,         \* the coroutine the event loop is running, 0 if none
    deploys,            \* deploy_function calls made so far
    deletes,            \* delete_function calls made so far
    ipc,                \* caller -> position of its invoke_function call
    invokes             \* invoke_function calls made so far

execVars == <<clock, state, running_functions, sem_value, waiters, awaiting,
              queued, submitted, acquired, released, gc_pc>>
deployVars == <<code_file, backup_file, req_file, fn_req_file, env_store,
                dpc, dlocal, loop_owner, deploys, deletes>>
invokeVars == <<ipc, invokes>>
vars == <<execVars, event, deployVars, invokeVars>>

NoEvent == [kind |-> "none"]

\* ----------------------------------------------------------- dict helpers
\* d[k] = v on a Python dict
SetKey(d, k, v) == [x \in DOMAIN d \cup {k} |-> IF x = k THEN v ELSE d[x]]

\* del d[k] for every k in ks
DelKeys(d, ks) == [x \in DOMAIN d \ ks |-> d[x]]

\* f"{self.project_name}:{function_name}:{time.time()}"
func_id(fn, t) == <<project_name, fn, t>>

\* the dict stored at line 106
NewRecord(fn, t) == [start_time |-> t, status |-> "running", function |-> fn]

\* the success path stamping the end time only
MarkCompletedEndOnly(rf, id, t) == SetKey(rf, id, SetKey(rf[id], "end_time", t))

\* lines 127-128; the subscript raises KeyError when the id is absent
MarkCompleted(rf, id, t) ==
    SetKey(rf, id, SetKey(SetKey(rf[id], "status", "completed"), "end_time", t))

\* the handler without line 143
MarkFailedNoError(rf, id, t, msg) ==
    SetKey(rf, id, SetKey(SetKey(rf[id], "status", "failed"), "end_time", t))

\* lines 141-143
MarkFailed(rf, id, t, msg) ==
    SetKey(rf, id, SetKey(SetKey(SetKey(rf[id], "status", "failed"),
                                 "end_time", t), "error", msg))

\* ------------------------------------------------------------- semaphore
\* asyncio.Semaphore as in CPython 3.11 and later: acquire() parks the
\* caller when locked(), release() hands the slot to the first waiter whose
\* future is pending, and the waiter leaves the queue when it resumes.
\* a semaphore that never blocks
lockedNever == FALSE

\* Semaphore.locked()
locked == sem_value = 0 \/ Len(waiters) > 0

\* index of the first waiter whose future is not done, 0 if none
FirstPending(ws) ==
    IF \E i \in 1..Len(ws) : ~ws[i].done
    THEN CHOOSE i \in 1..Len(ws) :
            ~ws[i].done /\ \A j \in 1..(i-1) : ws[j].done
    ELSE 0

\* release() that increments the counter although it hands the slot over
ReleaseValueTwice(v, ws) == v + 1

\* Semaphore.release(): _value += 1, then hand the slot to the next waiter
ReleaseValue(v, ws) == IF FirstPending(ws) = 0 THEN v + 1 ELSE v
ReleaseWaiters(ws) ==
    IF FirstPending(ws) = 0 THEN ws
    ELSE [ws EXCEPT ![FirstPending(ws)].done = TRUE]

\* ------------------------------------------------------------- event loop
\* calls suspended in master.execute_function
InFlight == LET RECURSIVE sum(_)
                sum(S) == IF S = {} THEN 0
                          ELSE LET x == CHOOSE y \in S : TRUE
                               IN awaiting[x] + sum(S \ {x})
            IN sum(FuncIds)

\* __init__ line 46 puts _cleanup_task on the loop's ready queue before any
\* callback of a later suspension: its first sweep runs before any
\* suspended call is resumed, and before a call made after a suspension.
CleanupStarted == gc_pc # "start"
NobodySuspended == InFlight = 0 /\ waiters = <<>>

\* --------------------------------------------------------------- execute
\* Lines 139-149: the outer except clause, entered after the slot has been
\* given back.  rf is the dict at that point.
\* q tells whether the call had been parked on the semaphore.
OuterExcept(rf, id, msg, q) ==
    IF id \in DOMAIN rf
    THEN /\ running_functions' = MarkFailed(rf, id, clock, msg)
         /\ event' = [kind |-> "return", id |-> id, parked |-> q,
                      result |-> [status |-> "error", error |-> msg]]
    ELSE /\ running_functions' = rf
         \* msg is the exception that was being handled (__context__)
         /\ event' = [kind |-> "raise", id |-> id, parked |-> q,
                      exc |-> ErrKey, context |-> msg]

\* Lines 106-124 with the slot held: store the record, resolve the master,
\* and either suspend in master.execute_function or fail at once.
\* v and ws are the semaphore's counter and waiters once the slot is taken.
Admitted(id, fn, v, ws, master, q) ==
    LET rf == SetKey(running_functions, id, NewRecord(fn, clock)) IN
    /\ acquired' = acquired + 1
    /\ IF state = "None" \/ ~master
       THEN /\ OuterExcept(rf, id, IF state = "None" THEN ErrNoState
                                                     ELSE ErrNoMaster, q)
            /\ sem_value' = ReleaseValue(v, ws)
            /\ waiters' = ReleaseWaiters(ws)
            /\ released' = released + 1
            /\ UNCHANGED <<awaiting, queued>>
       ELSE /\ running_functions' = rf
            /\ sem_value' = v
            /\ waiters' = ws
            /\ awaiting' = [awaiting EXCEPT ![id] = @ + 1]
            /\ queued' = [queued EXCEPT ![id] = IF q THEN @ + 1 ELSE @]
            /\ event' = NoEvent
            /\ UNCHANGED released

\* execute() is called: line 100, then "async with self.semaphore"
Execute(fn, master) ==
    /\ submitted < MaxCalls
    /\ CleanupStarted \/ NobodySuspended
    /\ submitted' = submitted + 1
    /\ LET id == func_id(fn, clock) IN
       IF locked
       THEN /\ waiters' = Append(waiters, [id |-> id, done |-> FALSE])
            /\ event' = NoEvent
            /\ UNCHANGED <<running_functions, sem_value, awaiting, queued,
                           acquired, released>>
       ELSE Admitted(id, fn, sem_value - 1, waiters, master, FALSE)
    /\ UNCHANGED <<clock, state, gc_pc, deployVars,
                   invokeVars>>

\* a parked call whose future was set resumes inside acquire(); the loop
\* runs the callbacks in the order the futures were set, which is FIFO
Resume(master) ==
    /\ CleanupStarted
    /\ waiters # <<>>
    /\ waiters[1].done
    /\ LET id == waiters[1].id IN
       \* release() already took the slot on the waiter's behalf
       Admitted(id, id[2], sem_value, Tail(waiters), master, TRUE)
    /\ UNCHANGED <<clock, state, gc_pc, submitted, deployVars,
                   invokeVars>>

\* Lines 124-137 when master.execute_function returns: the subscript at
\* line 127 raises KeyError if the record is gone; the inner except
\* re-raises it, the with block releases, the outer except handles it.
\* q: the call that ends is one that had been parked.
Suspended(id, q) ==
    IF q THEN queued[id] > 0 ELSE awaiting[id] - queued[id] > 0

BackendReturns(id, q) ==
    /\ CleanupStarted
    /\ Suspended(id, q)
    /\ awaiting' = [awaiting EXCEPT ![id] = @ - 1]
    /\ queued' = [queued EXCEPT ![id] = IF q THEN @ - 1 ELSE @]
    /\ sem_value' = ReleaseValue(sem_value, waiters)
    /\ waiters' = ReleaseWaiters(waiters)
    /\ released' = released + 1
    /\ IF id \in DOMAIN running_functions
       THEN /\ running_functions' = MarkCompleted(running_functions, id, clock)
            /\ event' = [kind |-> "return", id |-> id, parked |-> q,
                         result |-> [status |-> "success", result |-> "r"]]
       ELSE OuterExcept(running_functions, id, ErrKey, q)
    /\ UNCHANGED <<clock, state, gc_pc, submitted, acquired, deployVars,
                   invokeVars>>

\* the exception path without the scoped release of "async with"
BackendRaisesLeak(id, q) ==
    /\ CleanupStarted
    /\ Suspended(id, q)
    /\ awaiting' = [awaiting EXCEPT ![id] = @ - 1]
    /\ queued' = [queued EXCEPT ![id] = IF q THEN @ - 1 ELSE @]
    /\ released' = released + 1
    /\ OuterExcept(running_functions, id, ErrBackend, q)
    /\ UNCHANGED <<clock, state, gc_pc, submitted, acquired, sem_value,
                   waiters, deployVars,
                   invokeVars>>

\* Lines 135-149 when master.execute_function raises
BackendRaises(id, q) ==
    /\ CleanupStarted
    /\ Suspended(id, q)
    /\ awaiting' = [awaiting EXCEPT ![id] = @ - 1]
    /\ queued' = [queued EXCEPT ![id] = IF q THEN @ - 1 ELSE @]
    /\ sem_value' = ReleaseValue(sem_value, waiters)
    /\ waiters' = ReleaseWaiters(waiters)
    /\ released' = released + 1
    /\ OuterExcept(running_functions, id, ErrBackend, q)
    /\ UNCHANGED <<clock, state, gc_pc, submitted, acquired, deployVars,
                   invokeVars>>

\* ---------------------------------------------------------- _cleanup_task
\* a sweep that spares the records still 'running'
ExpiredSkipRunning(rf, t) ==
    {id \in DOMAIN rf : /\ t - rf[id].start_time > Retention
                         /\ rf[id].status # "running"}

\* the ids collected at lines 76-80 for a sweep at time t
Expired(rf, t) == {id \in DOMAIN rf : t - rf[id].start_time > Retention}

\* the task is at its start or suspended in one of its two sleeps
GcAlive == gc_pc \in {"start", "sleep300", "sleep60"}

\* the delay of the sleep the task is suspended in, lines 85 and 88
SleepOf(pc) == IF pc = "sleep300" THEN SleepNormal
               ELSE IF pc = "sleep60" THEN SleepBackoff ELSE 0

\* iterations that follow each other are told apart by a bit
GcSeq == IF event.kind \in {"sweep", "sweep_error"} THEN 1 - event.n ELSE 0

\* One iteration of the loop, lines 75-85: the task wakes from its sleep
\* (or starts), sweeps, and suspends in asyncio.sleep(300).  The sleeps are
\* shorter than Tick, so a wake-up can fall on any clock reading.
CleanupSweep ==
    /\ GcAlive
    /\ running_functions' =
          DelKeys(running_functions, Expired(running_functions, clock))
    /\ gc_pc' = "sleep300"
    /\ event' = [kind |-> "sweep", at |-> clock, n |-> GcSeq]
    /\ UNCHANGED <<clock, state, sem_value, waiters, awaiting, queued,
                   submitted, acquired, released, deployVars,
                   invokeVars>>

\* an iteration whose handler gives up the task
CleanupErrorEnds ==
    /\ GcAlive
    /\ \E gone \in SUBSET Expired(running_functions, clock) :
          running_functions' = DelKeys(running_functions, gone)
    /\ gc_pc' = "ended"
    /\ event' = [kind |-> "sweep_error", at |-> clock, n |-> GcSeq]
    /\ UNCHANGED <<clock, state, sem_value, waiters, awaiting, queued,
                   submitted, acquired, released, deployVars,
                   invokeVars>>

\* An iteration in which an exception is raised somewhere in lines 76-85,
\* after some of the deletions: lines 86-88 log it and the task suspends in
\* asyncio.sleep(60).
CleanupError ==
    /\ GcAlive
    /\ \E gone \in SUBSET Expired(running_functions, clock) :
          running_functions' = DelKeys(running_functions, gone)
    /\ gc_pc' = "sleep60"
    /\ event' = [kind |-> "sweep_error", at |-> clock, n |-> GcSeq]
    /\ UNCHANGED <<clock, state, sem_value, waiters, awaiting, queued,
                   submitted, acquired, released, deployVars,
                   invokeVars>>

\* list_running_functions(), lines 162-168
list_running_functions == running_functions

\* get_function_status(func_id), lines 151-160
get_function_status(id) ==
    IF id \in DOMAIN running_functions THEN running_functions[id] ELSE "None"

\* ------------------------------------------------------------------ clock
Advance ==
    /\ CleanupStarted \/ NobodySuspended
    /\ clock + Tick <= MaxTicks * Tick
    /\ clock' = clock + Tick
    /\ event' = NoEvent
    /\ UNCHANGED <<state, running_functions, sem_value, waiters, awaiting,
                   queued, submitted, acquired, released, gc_pc, deployVars,
                   invokeVars>>

\* ======================================================== deploy_function
Callers == {1, 2}       \* coroutines that call deploy_function
function_name == "f"    \* the function they deploy
Absent == "absent"      \* os.path.exists(path) is False

\* The code payloads, by what lines 180-192 can tell apart.
\*   "empty"            b"" (or None)
\*   "blank"            whitespace only
\*   "undecodable"      not UTF-8
\*   "syntax_error"     does not compile
\*   "no_main"          compiles, no main, the text "def main(" nowhere
\*   "main_in_comment"  compiles, no main, "def main(" in a comment or string
\*   "main_spaced"      compiles, declares main as "def main (..."
\*   "A", "B"           compile and declare "def main(" / "async def main("
ValidCodes == {"A", "B"}
Codes == {"empty", "blank", "undecodable", "syntax_error", "no_main",
          "main_in_comment", "main_spaced"} \cup ValidCodes

\* not code or len(code.strip()) == 0
StripsToEmpty(c) == c \in {"empty", "blank"}
\* code.decode('utf-8') succeeds
Decodes(c) == c # "undecodable"
\* compile(code_str, '<string>', 'exec') succeeds
Compiles(c) == c # "syntax_error"
\* "def main(" in code_str or "async def main(" in code_str
ContainsDefMain(c) == c \in {"main_in_comment"} \cup ValidCodes
\* the module the payload defines has a function named main
DeclaresMain(c) == c \in {"main_spaced"} \cup ValidCodes

ErrEmpty   == "function code must not be empty"
ErrFormat  == "function code format invalid"
ErrNoMain  == "function code must contain a main function"
ErrInstall == "installing project dependencies failed"

\* Lines 179-192: "ok", or the message of the ValueError raised
Validate(c) ==
    IF StripsToEmpty(c) THEN ErrEmpty
    ELSE IF ~Decodes(c) \/ ~Compiles(c) THEN ErrFormat
    ELSE IF ~ContainsDefMain(c) THEN ErrNoMain
    ELSE "ok"

\* the requirements argument: None, b"" or a manifest
Requirements == {"None", "", "R1"}
\* "if requirements:"
ReqTruthy(r) == r \notin {"None", ""}

\* the env_vars argument: None, {} or a mapping
EnvKeys == {"K"}
EnvArgs == {[none |-> TRUE,  map |-> <<>>],
            [none |-> FALSE, map |-> <<>>],
            [none |-> FALSE, map |-> [k \in EnvKeys |-> "v1"]]}
\* "if env_vars:"
EnvTruthy(e) == ~e.none /\ DOMAIN e.map # {}

\* EnvManager.update_project_env: merge the mapping into the store
update_project_env(store, m) ==
    [k \in DOMAIN store \cup DOMAIN m |-> IF k \in DOMAIN m THEN m[k] ELSE store[k]]

\* the files and the store as one value
Files == [code |-> code_file, backup |-> backup_file, req |-> req_file,
          env |-> env_store]

NoLocal == [code |-> "empty", requirements |-> "None",
            env_vars |-> [none |-> TRUE, map |-> <<>>],
            pre |-> [code |-> Absent, backup |-> Absent, req |-> Absent,
                     env |-> <<>>],
            installed |-> "no"]

\* the installation awaited as a subprocess of the loop
SuspendsAtInstall(pc) == pc = "install"

\* deploy_function contains no await (subprocess.run blocks the loop), so
\* the loop never leaves a call between its first line and its return
SuspendsAt(pc) == FALSE

\* caller d is between the first line of deploy_function and its return
Active(d) == dpc[d] \notin {"idle", "scheduled"}

\* the loop may run a step of caller d
Runnable(d) == loop_owner = d \/ (loop_owner = 0 /\ dpc[d] # "idle")

\* caller d moves on to position pc
Goto(d, pc) ==
    /\ dpc' = [dpc EXCEPT ![d] = pc]
    /\ loop_owner' = IF SuspendsAt(pc) THEN 0 ELSE d
    /\ event' = NoEvent

\* the call of caller d ends: it returns the success dict or raises
Finish(d, outcome, msg, installed) ==
    /\ dpc' = [dpc EXCEPT ![d] = "idle"]
    /\ dlocal' = [dlocal EXCEPT ![d] = NoLocal]
    /\ loop_owner' = 0
    /\ event' = [kind |-> "deploy_done", d |-> d, outcome |-> outcome,
                 error |-> msg, code |-> dlocal[d].code,
                 requirements |-> dlocal[d].requirements,
                 env_vars |-> dlocal[d].env_vars, pre |-> dlocal[d].pre,
                 installed |-> installed,
                 \* "function_name" of the returned dict, line 241
                 returned_name |-> IF outcome = "success" THEN function_name
                                   ELSE ""]

\* A caller creates the coroutine deploy_function(...) and hands it to the
\* loop.  Nothing reads the arguments before the coroutine first runs, so
\* they are drawn when it does.
DeployCall(d) ==
    /\ dpc[d] = "idle"
    /\ deploys < MaxDeploys
    /\ deploys' = deploys + 1
    /\ dpc' = [dpc EXCEPT ![d] = "scheduled"]
    /\ event' = NoEvent
    /\ UNCHANGED <<execVars, invokeVars, code_file, backup_file, req_file, fn_req_file,
                   env_store, dlocal, loop_owner, deletes>>

\* Lines 177-192, for the call deploy_function(function_name, c, r, e)
DeployValidate(d, c, r, e) ==
    /\ Runnable(d)
    /\ dpc[d] = "scheduled"
    /\ LET args == [NoLocal EXCEPT !.code = c, !.requirements = r,
                                   !.env_vars = e, !.pre = Files] IN
       IF Validate(c) = "ok"
       THEN /\ Goto(d, "backup")
            /\ dlocal' = [dlocal EXCEPT ![d] = args]
       ELSE /\ dpc' = [dpc EXCEPT ![d] = "idle"]
            /\ dlocal' = dlocal
            /\ loop_owner' = 0
            /\ event' = [kind |-> "deploy_done", d |-> d, outcome |-> "raise",
                         error |-> Validate(c), code |-> c,
                         requirements |-> r, env_vars |-> e, pre |-> Files,
                         installed |-> "no", returned_name |-> ""]
    /\ UNCHANGED <<execVars, invokeVars, code_file, backup_file, req_file, fn_req_file,
                   env_store, deploys, deletes>>

\* Lines 194-199
DeployBackup(d) ==
    /\ Runnable(d)
    /\ dpc[d] = "backup"
    /\ backup_file' = IF code_file # Absent THEN code_file ELSE backup_file
    /\ Goto(d, "write")
    /\ UNCHANGED <<execVars, invokeVars, code_file, req_file, fn_req_file, env_store,
                   dlocal, deploys, deletes>>

\* Lines 201-204
DeployWrite(d) ==
    /\ Runnable(d)
    /\ dpc[d] = "write"
    /\ code_file' = dlocal[d].code
    /\ Goto(d, "manifest")
    /\ UNCHANGED <<execVars, invokeVars, backup_file, req_file, fn_req_file, env_store,
                   dlocal, deploys, deletes>>

\* Lines 206-212
DeployManifest(d) ==
    /\ Runnable(d)
    /\ dpc[d] = "manifest"
    /\ req_file' = IF ReqTruthy(dlocal[d].requirements)
                   THEN dlocal[d].requirements ELSE req_file
    /\ Goto(d, "install")
    /\ UNCHANGED <<execVars, invokeVars, code_file, backup_file, fn_req_file, env_store,
                   dlocal, deploys, deletes>>

\* installation run only for a manifest written by this call
DeployInstallOnlyNew(d, ok) ==
    /\ Runnable(d)
    /\ dpc[d] = "install"
    /\ IF ~ReqTruthy(dlocal[d].requirements)
       THEN /\ Goto(d, "commit")
            /\ UNCHANGED dlocal
       ELSE /\ Goto(d, IF ok THEN "commit" ELSE "rollback")
            /\ dlocal' = [dlocal EXCEPT
                            ![d].installed = IF ok THEN "ok" ELSE "failed"]
    /\ UNCHANGED <<execVars, invokeVars, code_file, backup_file, req_file, fn_req_file,
                   env_store, deploys, deletes>>

\* Lines 214-219: pip install -r, which succeeds (ok) or raises
DeployInstall(d, ok) ==
    /\ Runnable(d)
    /\ dpc[d] = "install"
    /\ IF req_file = Absent
       THEN /\ Goto(d, "commit")
            /\ UNCHANGED dlocal
       ELSE /\ Goto(d, IF ok THEN "commit" ELSE "rollback")
            /\ dlocal' = [dlocal EXCEPT
                            ![d].installed = IF ok THEN "ok" ELSE "failed"]
    /\ UNCHANGED <<execVars, invokeVars, code_file, backup_file, req_file, fn_req_file,
                   env_store, deploys, deletes>>

\* the except clause without the copy of the backup
DeployRollbackNoRestore(d) ==
    /\ Runnable(d)
    /\ dpc[d] = "rollback"
    /\ Finish(d, "raise", ErrInstall, dlocal[d].installed)
    /\ UNCHANGED <<execVars, invokeVars, code_file, backup_file, req_file, fn_req_file,
                   env_store, deploys, deletes>>

\* Lines 220-226 and 244-246
DeployRollback(d) ==
    /\ Runnable(d)
    /\ dpc[d] = "rollback"
    /\ code_file' = IF backup_file # Absent THEN backup_file ELSE code_file
    /\ Finish(d, "raise", ErrInstall, dlocal[d].installed)
    /\ UNCHANGED <<execVars, invokeVars, backup_file, req_file, fn_req_file, env_store,
                   deploys, deletes>>

\* the commit without lines 233-235
DeployCommitNoEnv(d) ==
    /\ Runnable(d)
    /\ dpc[d] = "commit"
    /\ backup_file' = Absent
    /\ Finish(d, "success", "", dlocal[d].installed)
    /\ UNCHANGED <<execVars, invokeVars, code_file, req_file, fn_req_file, env_store,
                   deploys, deletes>>

\* Lines 228-242
DeployCommit(d) ==
    /\ Runnable(d)
    /\ dpc[d] = "commit"
    /\ backup_file' = Absent
    /\ env_store' = IF EnvTruthy(dlocal[d].env_vars)
                    THEN update_project_env(env_store, dlocal[d].env_vars.map)
                    ELSE env_store
    /\ Finish(d, "success", "", dlocal[d].installed)
    /\ UNCHANGED <<execVars, invokeVars, code_file, req_file, fn_req_file, deploys,
                   deletes>>

\* delete_function, lines 292-317: no await either, one run of the loop
DeleteFunction ==
    /\ loop_owner = 0
    /\ deletes < MaxDeletes
    /\ deletes' = deletes + 1
    /\ code_file' = Absent
    /\ fn_req_file' = Absent
    /\ event' = [kind |-> "delete_done"]
    /\ UNCHANGED <<execVars, invokeVars, backup_file, req_file, env_store, dpc, dlocal,
                   loop_owner, deploys>>

\* ======================================================== invoke_function
InvokeCallers == {1, 2, 3}      \* coroutines that call invoke_function
BackendResults == {"r1", "r2"}  \* what execute_function_async can return
ErrNotFound == "Project p not found"

\* an except clause that returns the error as a dict, as execute() does
InvokeExceptReturns(c, cause, msg) ==
    /\ ipc' = [ipc EXCEPT ![c] = "idle"]
    /\ event' = [kind |-> "invoke_done", c |-> c, cause |-> cause,
                 outcome |-> "return",
                 result |-> [status |-> "error", error |-> msg]]

\* Lines 265-267: the except clause logs and raises again
InvokeExcept(c, cause, msg) ==
    /\ ipc' = [ipc EXCEPT ![c] = "idle"]
    /\ event' = [kind |-> "invoke_done", c |-> c, cause |-> cause,
                 outcome |-> "raise", error |-> msg]

\* invoke_function is called, lines 248-257: registry.get_project finds the
\* project or not; with a project the call suspends in
\* project.execute_function_async
InvokeCall(c, found) ==
    /\ ipc[c] = "idle"
    /\ invokes < MaxInvokes
    /\ invokes' = invokes + 1
    /\ IF found
       THEN /\ ipc' = [ipc EXCEPT ![c] = "awaiting"]
            /\ event' = NoEvent
       ELSE InvokeExcept(c, "not_found", ErrNotFound)
    /\ UNCHANGED <<execVars, deployVars>>

\* Lines 257-263: execute_function_async returns r
InvokeBackendReturns(c, r) ==
    /\ ipc[c] = "awaiting"
    /\ ipc' = [ipc EXCEPT ![c] = "idle"]
    /\ event' = [kind |-> "invoke_done", c |-> c, cause |-> "ok",
                 outcome |-> "return",
                 result |-> [status |-> "success", result |-> r],
                 backend |-> r]
    /\ UNCHANGED <<execVars, deployVars, invokes>>

\* Lines 257 and 265-267: execute_function_async raises
InvokeBackendRaises(c) ==
    /\ ipc[c] = "awaiting"
    /\ InvokeExcept(c, "backend_error", ErrBackend)
    /\ UNCHANGED <<execVars, deployVars, invokes>>

\* ---------------------------------------------------------- specification
\* the executor right after __init__
ExecInit ==
    /\ clock = 0
    /\ running_functions = <<>>
    /\ sem_value = SemaphoreCapacity
    /\ waiters = <<>>
    /\ awaiting = [id \in FuncIds |-> 0]
    /\ queued = [id \in FuncIds |-> 0]
    /\ submitted = 0
    /\ acquired = 0
    /\ released = 0
    /\ gc_pc = "start"
    /\ event = NoEvent

\* no deployment and no invoke_function call under way
DeployIdle ==
    /\ ipc = [c \in InvokeCallers |-> "idle"]
    /\ invokes = 0
    /\ backup_file = Absent
    /\ env_store = <<>>
    /\ dpc = [d \in Callers |-> "idle"]
    /\ dlocal = [d \in Callers |-> NoLocal]
    /\ loop_owner = 0
    /\ deploys = 0
    /\ deletes = 0

Init ==
    /\ ExecInit
    /\ state \in {"present", "None"}
    /\ DeployIdle
    /\ code_file = Absent
    /\ req_file = Absent
    /\ fn_req_file = Absent

Next ==
    \/ \E fn \in FunctionNames, master \in BOOLEAN : Execute(fn, master)
    \/ \E master \in BOOLEAN : Resume(master)
    \/ \E id \in FuncIds, q \in BOOLEAN : BackendReturns(id, q)
    \/ \E id \in FuncIds, q \in BOOLEAN : BackendRaises(id, q)
    \/ CleanupSweep
    \/ Advance

Spec == Init /\ [][Next]_vars

\* The sweeps among a few calls, with an iteration that may fail.  The timer
\* of asyncio.sleep fires and the loop resumes the task: an iteration that
\* stays possible is eventually run.
NextGC ==
    \/ \E fn \in FunctionNames, master \in BOOLEAN :
          submitted < MaxGcCalls /\ Execute(fn, master)
    \/ \E id \in FuncIds : BackendReturns(id, FALSE)
    \/ \E id \in FuncIds : BackendRaises(id, FALSE)
    \/ CleanupSweep
    \/ CleanupError
    \/ Advance

SpecGC == Init /\ [][NextGC]_vars /\ WF_vars(CleanupSweep \/ CleanupError)

\* deployments and deletions on a project directory that may already hold
\* the function's code and a manifest
InitDeploy ==
    /\ ExecInit
    /\ state = "present"
    /\ DeployIdle
    /\ code_file \in {Absent, "old"}
    /\ req_file \in {Absent, "R0"}
    /\ fn_req_file \in {Absent, "legacy"}

NextDeploy ==
    \/ \E d \in Callers : DeployCall(d)
    \/ \E d \in Callers, c \in Codes, r \in Requirements, e \in EnvArgs :
          DeployValidate(d, c, r, e)
    \/ \E d \in Callers : DeployBackup(d)
    \/ \E d \in Callers : DeployWrite(d)
    \/ \E d \in Callers : DeployManifest(d)
    \/ \E d \in Callers, ok \in BOOLEAN : DeployInstall(d, ok)
    \/ \E d \in Callers : DeployRollback(d)
    \/ \E d \in Callers : DeployCommit(d)
    \/ DeleteFunction

SpecDeploy == InitDeploy /\ [][NextDeploy]_vars

\* calls of invoke_function
NextInvoke ==
    \/ \E c \in InvokeCallers, found \in BOOLEAN : InvokeCall(c, found)
    \/ \E c \in InvokeCallers, r \in BackendResults :
          InvokeBackendReturns(c, r)
    \/ \E c \in InvokeCallers : InvokeBackendRaises(c)

SpecInvoke == Init /\ [][NextInvoke]_vars

\* ================================================================ claims
RunningIds ==
    {id \in DOMAIN running_functions : running_functions[id].status = "running"}
TerminalStatus == {"completed", "failed"}
\* slots taken from the semaphore
Held == SemaphoreCapacity - sem_value
\* parked calls that release() has handed a slot and that have not resumed
Woken == Cardinality({i \in 1..Len(waiters) : waiters[i].done})

\* C1 - Admission bound: the number of entries of running_functions whose
\* status is 'running' never exceeds the semaphore capacity: every such
\* entry belongs to a call suspended in the backend with a slot, and there
\* are never more than SemaphoreCapacity of those.
C1_AdmissionBound ==
    /\ Cardinality(RunningIds) <= SemaphoreCapacity
    /\ \A id \in RunningIds : awaiting[id] > 0
    /\ InFlight <= SemaphoreCapacity

\* the budget is exhausted, a further call is parked, records are 'running'
C1_Witness ==
    /\ InFlight = SemaphoreCapacity
    /\ \E i \in 1..Len(waiters) : ~waiters[i].done
    /\ RunningIds # {}

\* C2 - The number of calls suspended inside master.execute_function never
\* exceeds the budget, and each of them holds a slot of the semaphore, also
\* when the sweep has evicted the record of a call still in flight.
C2_InFlightBound ==
    /\ InFlight <= SemaphoreCapacity
    /\ InFlight <= Held
    /\ sem_value >= 0

\* the budget is exhausted while the record of a call in flight is evicted
C2_Witness ==
    /\ InFlight = SemaphoreCapacity
    /\ waiters # <<>>
    /\ \E id \in FuncIds : awaiting[id] > 0 /\ id \notin DOMAIN running_functions

\* C3 - Slot conservation: available + held = capacity at all times, every
\* acquisition not yet released belongs to a call in flight, and once all
\* submitted calls have finished the semaphore is back at its capacity.
C3_SlotConservation ==
    /\ sem_value + InFlight + Woken = SemaphoreCapacity
    /\ acquired = released + InFlight
    /\ NobodySuspended => sem_value = SemaphoreCapacity /\ acquired = released

\* more calls than slots have all finished, the last one by an exception
C3_Witness ==
    /\ NobodySuspended
    /\ released > SemaphoreCapacity
    /\ released = submitted
    /\ event.kind \in {"return", "raise"}
    /\ event.kind = "return" => event.result.status = "error"

\* C4 - execute() never propagates an exception to its caller.
C4_NeverRaises == event.kind # "raise"

\* C5 - Lifecycle monotonicity: an id whose entry is 'completed' or 'failed'
\* is not 'running' afterwards.
C5_Monotonic ==
    [][\A id \in DOMAIN running_functions :
          running_functions[id].status \in TerminalStatus
          => ~(/\ id \in DOMAIN running_functions'
               /\ running_functions'[id].status = "running")]_vars

\* C10 - Garbage collection: a sweep at time t removes from
\* list_running_functions() every record with t - start_time > 3600,
\* whatever its status, keeps every other record with all its fields, and
\* adds none.
C10_GarbageCollection ==
    [][event'.kind = "sweep" =>
         /\ DOMAIN list_running_functions' \subseteq DOMAIN running_functions
         /\ \A id \in DOMAIN running_functions :
               IF event'.at - running_functions[id].start_time > Retention
               THEN id \notin DOMAIN list_running_functions'
               ELSE /\ id \in DOMAIN list_running_functions'
                    /\ list_running_functions'[id] = running_functions[id]]_vars

\* a sweep has run, the record of a call still in flight is gone and a
\* record of age Tick has been kept
C10_Witness ==
    /\ event.kind = "sweep"
    /\ \E id \in FuncIds : awaiting[id] > 0 /\ id \notin DOMAIN running_functions
    /\ \E id \in DOMAIN running_functions :
          /\ running_functions[id].start_time < event.at
          /\ running_functions[id].status = "running"

\* a deploy_function call has just returned or raised
DeployDone == event.kind = "deploy_done"
\* c is empty after trimming, undecodable, not valid syntax, or declares no main
Invalid(c) == StripsToEmpty(c) \/ ~Decodes(c) \/ ~Compiles(c) \/ ~DeclaresMain(c)

\* C6 - Deployment atomicity: a call with valid code on an existing code
\* file whose dependency installation fails raises, and leaves the code
\* file with the content it had before the call.
C6_DeploymentAtomicity ==
    (/\ DeployDone
     /\ event.pre.code # Absent
     /\ Validate(event.code) = "ok"
     /\ event.installed = "failed")
    => /\ event.outcome = "raise"
       /\ event.error = ErrInstall
       /\ code_file = event.pre.code

\* such a call has ended: other code had been submitted, the old is back
C6_Witness ==
    /\ DeployDone
    /\ event.pre.code # Absent
    /\ event.installed = "failed"
    /\ event.code # event.pre.code
    /\ event.outcome = "raise"
    /\ code_file = event.pre.code

\* C7 - After any deploy_function call that fails, the code file is as it
\* was before the call: same content, or still absent.
C7_FailedDeployInvisible ==
    (DeployDone /\ event.outcome = "raise") => code_file = event.pre.code

\* C8 - Validation gating: a call whose code is empty after trimming, not
\* decodable or not valid syntax, or declares no main, raises a validation
\* error, leaves code file, backup, manifest and environment store as they
\* were and never runs the dependency installation.
C8_ValidationGating ==
    (DeployDone /\ Invalid(event.code))
    => /\ event.outcome = "raise"
       /\ event.error \in {ErrEmpty, ErrFormat, ErrNoMain}
       /\ Files = event.pre
       /\ event.installed = "no"

\* C9 - Concurrent deployment serialization: of two deploy_function calls
\* in progress at the same time only one is between its first line and its
\* return, so each call ends on a code file that is its own payload
\* (success), or the content it found (rollback from its own backup).
C9_Serialized ==
    /\ \A d1, d2 \in Callers : Active(d1) /\ Active(d2) => d1 = d2
    /\ \A d \in Callers : Active(d) => loop_owner = d
    /\ DeployDone /\ event.outcome = "success" => code_file = event.code
    /\ (DeployDone /\ event.installed = "failed" /\ event.pre.code # Absent)
       => code_file = event.pre.code

\* one call is at the installation step while the other waits for the loop
C9_Witness ==
    \E d1, d2 \in Callers :
       /\ dpc[d1] = "install"
       /\ dlocal[d1].pre.code # Absent
       /\ dpc[d2] = "scheduled"

\* an execute() call has just ended, by a return or by an exception
ExecuteDone == event.kind \in {"return", "raise"}
\* what ended the with block of that call: "ok" or the exception's message
Cause(e) ==
    IF e.kind = "raise" THEN e.context
    ELSE IF e.result.status = "error" THEN e.result.error ELSE "ok"
ResolutionErrors == {ErrNoState, ErrNoMaster}

\* C11 - Structured failure on resolution failure: a call that finds no
\* state object or no master does not call master.execute_function, leaves
\* a record with status 'failed' and the error message, and returns
\* {status: 'error', error: ...} without raising.
C11_ResolutionFailure ==
    [][(event' # event /\ event'.kind \in {"return", "raise"}
        /\ Cause(event') \in ResolutionErrors)
       => /\ awaiting' = awaiting
          /\ event'.kind = "return"
          /\ event'.result = [status |-> "error", error |-> Cause(event')]
          /\ event'.id \in DOMAIN running_functions'
          /\ running_functions'[event'.id].status = "failed"
          /\ "error" \in DOMAIN running_functions'[event'.id]
          /\ running_functions'[event'.id].error = Cause(event')]_vars

\* a call admitted from the queue found no master while others are in flight
C11_Witness ==
    /\ ExecuteDone
    /\ Cause(event) = ErrNoMaster
    /\ InFlight = SemaphoreCapacity - 1
    /\ submitted > SemaphoreCapacity

\* C12 - Backup cleanup: when a deploy_function call has finished, by
\* success or by raising after a failed installation, no .bak file exists.
C12_NoBackupLeft ==
    (DeployDone /\ (event.outcome = "success" \/ event.installed = "failed"))
    => backup_file = Absent

\* C13 - Identifier uniqueness: no two execute() calls that are parked or in
\* flight have the same record id.
C13_UniqueIds ==
    \A id \in FuncIds :
       awaiting[id]
       + Cardinality({i \in 1..Len(waiters) : waiters[i].id = id}) <= 1

\* C18 - Record field invariant: 'running' entries have no end_time and no
\* error, 'completed' entries an end_time and no error, 'failed' entries an
\* end_time and an error.
C18_RecordFields ==
    \A id \in DOMAIN running_functions :
       LET r == running_functions[id] IN
       /\ r.status = "running" =>
             "end_time" \notin DOMAIN r /\ "error" \notin DOMAIN r
       /\ r.status = "completed" =>
             "end_time" \in DOMAIN r /\ "error" \notin DOMAIN r
       /\ r.status = "failed" =>
             "end_time" \in DOMAIN r /\ "error" \in DOMAIN r

\* C19 - Asymmetric rollback: after a call with a manifest whose
\* installation failed the manifest file holds the new manifest while the
\* code file holds what the backup holds; and a call that passes validation
\* runs the installation exactly when a manifest file exists after the
\* manifest step, written by the call or found there.
C19_AsymmetricRollback ==
    /\ (DeployDone /\ ReqTruthy(event.requirements)
        /\ event.installed = "failed")
       => /\ req_file = event.requirements
          /\ backup_file # Absent => code_file = backup_file
          /\ event.pre.code # Absent => code_file = event.pre.code
    /\ (DeployDone /\ Validate(event.code) = "ok")
       => (event.installed # "no" <=> req_file # Absent)
    /\ \A d \in Callers :
          dpc[d] \in {"commit", "rollback"}
          => (dlocal[d].installed # "no" <=> req_file # Absent)

\* a new manifest replaced another one, the installation failed, the old
\* code is back
C19_Witness ==
    /\ DeployDone
    /\ event.installed = "failed"
    /\ ReqTruthy(event.requirements)
    /\ event.pre.req \notin {Absent, event.requirements}
    /\ req_file = event.requirements
    /\ event.pre.code \notin {Absent, event.code}
    /\ code_file = event.pre.code

\* C20 - Result and record agree: when an execute() call returns, its
\* record, if present, is 'completed' for a success result and 'failed'
\* with the same error text for an error result, and is not 'running'.
C20_ResultMatchesRecord ==
    (event.kind = "return" /\ event.id \in DOMAIN running_functions)
    => LET r == running_functions[event.id] IN
       /\ r.status # "running"
       /\ event.result.status = "success" => r.status = "completed"
       /\ event.result.status = "error" =>
             r.status = "failed" /\ r.error = event.result.error

\* a call returns success on a record it shares with a call still in flight
C20_Witness ==
    /\ event.kind = "return"
    /\ event.result.status = "success"
    /\ awaiting[event.id] > 0
    /\ running_functions[event.id].status = "completed"

\* C15 - No rejection by queueing: a call that was parked because all
\* slots were held ends with a result, which is not an error about the
\* exhausted budget.
C15_ParkedCallReturns ==
    (ExecuteDone /\ event.parked)
    => /\ event.kind = "return"
       /\ Cause(event) \in {"ok", ErrBackend} \cup ResolutionErrors

\* C14 - The garbage-collection task never terminates: after a normal
\* sweep it waits 300 s, after a failed one 60 s, and in both cases another
\* iteration follows.
C14_CleanupNeverEnds ==
    /\ [](event.kind = "sweep" => SleepOf(gc_pc) = SleepNormal)
    /\ [](event.kind = "sweep_error" => SleepOf(gc_pc) = SleepBackoff)
    /\ []<><<CleanupSweep \/ CleanupError>>_vars

\* an iteration that followed another one has failed while a call is in
\* flight, and the task waits in its backoff sleep
C14_Witness ==
    /\ event.kind = "sweep_error"
    /\ event.n = 1
    /\ gc_pc = "sleep60"
    /\ InFlight > 0

\* an invoke_function call has just ended
InvokeDone == event.kind = "invoke_done"

====
